---- MODULE Spec2Model ----
(***************************************************************************)
(* unilog: a lock-free MPSC byte ring for log entries (src/src/unilog.c).  *)
(* The ring bytes, the two position counters and the level threshold are   *)
(* the shared state; every producer and the consumer is a process whose    *)
(* atomic loads, CAS, byte stores and final stores are separate steps.     *)
(***************************************************************************)
EXTENDS Integers, Sequences, FiniteSets, TLC

\* ------------------------------------------------------------------ bounds
\* Write calls started in one behaviour.
MaxWrites == 4
\* Entries consumed by read in one behaviour.
MaxReads == 3

\* ------------------------------------------------------- program constants
UNILOG_LEVEL_TRACE == 0
UNILOG_LEVEL_DEBUG == 1
UNILOG_LEVEL_INFO == 2
UNILOG_LEVEL_WARN == 3
UNILOG_LEVEL_ERROR == 4
UNILOG_LEVEL_FATAL == 5
UNILOG_LEVEL_NONE == 6

UNILOG_OK == 0
UNILOG_ERR_FULL == -1
UNILOG_ERR_INVALID == -2
UNILOG_ERR_EMPTY == -3
UNILOG_ERR_BUSY == -4

\* sizeof(unilog_entry_header_t): length, level, timestamp, 4 bytes each.
HeaderSize == 12
\* sizeof(header.length): the publication word.
LengthSize == 4

\* ------------------------------------------------------------ arithmetic
RECURSIVE BitAnd(_, _)
\* x & y on naturals.
BitAnd(x, y) ==
    IF x = 0 \/ y = 0 THEN 0
    ELSE (x % 2) * (y % 2) + 2 * BitAnd(x \div 2, y \div 2)

\* The test without x > 0, in uint32: 0 & (0 - 1) is 0.
is_power_of_2_or_zero(x) == x = 0 \/ BitAnd(x, x - 1) = 0

\* is_power_of_2: x > 0 && (x & (x - 1)) == 0
is_power_of_2(x) == x > 0 /\ BitAnd(x, x - 1) = 0

\* Rounding up to a 2-byte boundary only: (size + 1) & ~1.
align_up_to_2(size) == (size + 1) - BitAnd(size + 1, 1)

\* align_up: (size + 3) & ~3, that is size + 3 with its two low bits cleared.
align_up(size) == (size + 3) - BitAnd(size + 3, 3)

\* (a + d) & mask for a position a and an advance d.
AddMask(a, d, mask) == BitAnd(a + d, mask)

\* (a - b) & mask in uint32 arithmetic for positions a, b <= mask: when a < b the
\* difference wraps to 2^32 + a - b, and mask + 1 divides 2^32.
SubMask(a, b, mask) == BitAnd(a - b + mask + 1, mask)

\* Byte k (little-endian) of the 32-bit value x.
ByteOf(x, k) == (x \div (256 ^ k)) % 256

\* The 32-bit value of four little-endian bytes.
WordOf(b0, b1, b2, b3) == b0 + 256 * b1 + 65536 * b2 + 16777216 * b3

\* The header bytes with the two fields in the other order: timestamp at offset
\* 4, level at offset 8.
HeaderByteSwapped(level, timestamp, i) ==
    IF i < 8 THEN ByteOf(timestamp, i - 4) ELSE ByteOf(level, i - 8)

\* Byte i (4..11) of the header struct: level at offset 4, timestamp at offset 8.
HeaderByte(level, timestamp, i) ==
    IF i < 8 THEN ByteOf(level, i - 4) ELSE ByteOf(timestamp, i - 8)

\* The aligned 32-bit word at offset at of the ring bytes buf.
LoadWord(buf, at) == WordOf(buf[at], buf[at + 1], buf[at + 2], buf[at + 3])

\* buf with the aligned 32-bit word at offset at set to x.
StoreWord(buf, at, x) ==
    [a \in DOMAIN buf |->
        IF a >= at /\ a < at + LengthSize THEN ByteOf(x, a - at) ELSE buf[a]]

\* ------------------------------------------------------------------ state
VARIABLES
    capacity,    \* log->buffer.capacity
    write_pos,   \* log->buffer.write_pos
    read_pos,    \* log->buffer.read_pos
    buffer,      \* log->buffer.buffer[0 .. capacity-1]
    min_level,   \* log->min_level
    wr,          \* per producer: the locals of its unilog_write_internal call
    rd,          \* the locals and outputs of the consumer's unilog_read call
    clock,       \* write calls started so far (the source of timestamps)
    setup,       \* the arguments and the result of the unilog_init call
    label,       \* the argument and the result of the unilog_level_name call
    levels,      \* the last unilog_set_level argument, the unilog_get_level result
    reserved,    \* history: the entries in order of successful CAS
    delivered    \* history: the entries returned by read, in order

vars == <<capacity, write_pos, read_pos, buffer, min_level, wr, rd, clock,
          setup, label, levels, reserved, delivered>>

shared == <<capacity, write_pos, read_pos, buffer, min_level>>

Producers == {"p1", "p2"}

\* The timestamp the k-th write call passes: a clock ticking in units of 257, so
\* that two bytes of the timestamp field are nonzero.
ClockAt(k) == 257 * k

mask == capacity - 1

\* A producer between calls.
IdleWriter ==
    [pc |-> "idle", level |-> 0, timestamp |-> 0, message |-> <<>>,
     write_pos |-> 0, read_pos |-> 0, new_write_pos |-> 0, pos |-> 0, i |-> 0,
     msg_len |-> 0, null |-> FALSE, ret |-> 0, entry |-> 0]

\* The consumer between calls.
IdleReader ==
    [pc |-> "idle", buffer_size |-> 0, read_pos |-> 0, write_pos |-> 0,
     total_size |-> 0, header |-> <<>>, pos |-> 0, i |-> 0, copy_len |-> 0,
     new_read_pos |-> 0, level |-> -1, timestamp |-> -1, out |-> <<>>,
     ret |-> 0, entry |-> 0]

\* unilog_level_name with the label "WARNING" for UNILOG_LEVEL_WARN.
unilog_level_name_long(level) ==
    CASE level = UNILOG_LEVEL_TRACE -> "TRACE"
      [] level = UNILOG_LEVEL_DEBUG -> "DEBUG"
      [] level = UNILOG_LEVEL_INFO -> "INFO"
      [] level = UNILOG_LEVEL_WARN -> "WARNING"
      [] level = UNILOG_LEVEL_ERROR -> "ERROR"
      [] level = UNILOG_LEVEL_FATAL -> "FATAL"
      [] level = UNILOG_LEVEL_NONE -> "NONE"
      [] OTHER -> "UNKNOWN"

\* unilog_level_name (lines 272-283).
unilog_level_name(level) ==
    CASE level = UNILOG_LEVEL_TRACE -> "TRACE"
      [] level = UNILOG_LEVEL_DEBUG -> "DEBUG"
      [] level = UNILOG_LEVEL_INFO -> "INFO"
      [] level = UNILOG_LEVEL_WARN -> "WARN"
      [] level = UNILOG_LEVEL_ERROR -> "ERROR"
      [] level = UNILOG_LEVEL_FATAL -> "FATAL"
      [] level = UNILOG_LEVEL_NONE -> "NONE"
      [] OTHER -> "UNKNOWN"

\* The caller of unilog_level_name before its call.
NoLabel == [pc |-> "idle", level |-> 0, name |-> ""]

\* No unilog_set_level call since unilog_init, no unilog_get_level result at hand.
NoLevels == [set |-> <<>>, got |-> <<>>]

\* A call of unilog_level_name(level) returns.
LevelNameCall(level) ==
    /\ label.pc = "idle"
    /\ label' = [pc |-> "done", level |-> level,
                 name |-> unilog_level_name(level)]
    /\ UNCHANGED <<levels, setup, shared, wr, rd, clock, reserved, delivered>>

\* The caller goes on to its next call of unilog_level_name.
LevelNameReturn ==
    /\ label.pc = "done"
    /\ label' = NoLabel
    /\ UNCHANGED <<levels, setup, shared, wr, rd, clock, reserved, delivered>>

\* The caller of unilog_init before its call, and after the call returned ret.
NoSetup ==
    [pc |-> "idle", log |-> FALSE, buffer |-> FALSE, capacity |-> 0, ret |-> 0]
SetupDone(log, buf, cap, ret) ==
    [pc |-> "done", log |-> log, buffer |-> buf, capacity |-> cap, ret |-> ret]

\* unilog_init's verdict on a capacity (handle and backing bytes non-null).
InitResult(cap) == IF is_power_of_2(cap) THEN UNILOG_OK ELSE UNILOG_ERR_INVALID

\* unilog_init(log, buffer, capacity), lines 21-39, on a handle and on backing
\* bytes that hold anything: log and buf tell whether the pointers are non-null.
InitCall(log, buf, cap) ==
    /\ setup.pc = "idle"
    /\ IF ~log \/ ~buf \/ InitResult(cap) # UNILOG_OK
       THEN /\ setup' = SetupDone(log, buf, cap, UNILOG_ERR_INVALID)
            /\ UNCHANGED <<shared, levels>>
       ELSE /\ write_pos' = 0
            /\ read_pos' = 0
            /\ capacity' = cap
            /\ min_level' = UNILOG_LEVEL_TRACE
            /\ buffer' = [a \in DOMAIN buffer |->
                            IF a < cap THEN 0 ELSE buffer[a]]
            /\ setup' = SetupDone(log, buf, cap, UNILOG_OK)
            /\ levels' = NoLevels
    /\ UNCHANGED <<label, wr, rd, clock, reserved, delivered>>

\* The caller goes on to its next call of unilog_init.
InitReturn ==
    /\ setup.pc = "done"
    /\ rd.pc = "idle"
    /\ setup' = NoSetup
    /\ UNCHANGED <<levels, label, shared, wr, rd, clock, reserved, delivered>>

\* The state unilog_init leaves for an accepted capacity.
unilog_init(cap) ==
    /\ InitResult(cap) = UNILOG_OK
    /\ capacity = cap
    /\ write_pos = 0
    /\ read_pos = 0
    /\ buffer = [a \in 0 .. cap - 1 |-> 0]
    /\ min_level = UNILOG_LEVEL_TRACE
    /\ wr = [p \in Producers |-> IdleWriter]
    /\ rd = IdleReader
    /\ clock = 0
    /\ setup = SetupDone(TRUE, TRUE, cap, UNILOG_OK)
    /\ label = NoLabel
    /\ levels = NoLevels
    /\ reserved = <<>>
    /\ delivered = <<>>

\* ---------------------------------------------------------------- history
\* The ring offsets of the region of advance bytes reserved at offset at.
Region(at, advance) == {(at + k) % capacity : k \in 0 .. advance - 1}

\* The reservations no read has consumed yet.
Unconsumed == {k \in 1 .. Len(reserved) : ~reserved[k].consumed}

\* The reservations at offset pos no read has consumed yet.
UnconsumedAt(pos) == {k \in Unconsumed : reserved[k].at = pos}

\* The least element of a nonempty set of numbers.
Least(S) == CHOOSE k \in S : \A j \in S : k <= j

\* The reservation a read that started at offset pos consumes when it advances
\* read_pos: the oldest unconsumed one at pos (0: there is none).
Consumed(pos) ==
    IF UnconsumedAt(pos) = {} THEN 0 ELSE Least(UnconsumedAt(pos))

\* The history once that read has advanced read_pos.
Consume(pos) ==
    IF Consumed(pos) = 0 THEN reserved
    ELSE [reserved EXCEPT ![Consumed(pos)].consumed = TRUE]

\* ------------------------------------------------------------ the producer
\* total_size = header_size + msg_len (line 70), a uint32. A length of 2^32 - m
\* bytes is written -m, its two's-complement representative: the sum then wraps
\* to 12 - m, as the 32-bit addition does (m <= 12 in every input used).
total_size(msg_len) == HeaderSize + msg_len

\* i < msg_len on unsigned lengths (lines 120, 228).
Below(i, msg_len) == msg_len < 0 \/ i < msg_len

\* message[i] for a caller's buffer that repeats the bytes of message.
MessageByte(message, i) == message[(i % Len(message)) + 1]

\* 2^32 - m modulo n, for n < 2^15.
HugeMod(m, n) == ((((65536 % n) * (65536 % n)) % n) + n - (m % n)) % n

\* Available without the byte that tells full from empty.
AvailableNoSpare(w, r) == capacity - SubMask(w, r, mask)

\* capacity - used - 1 for the loaded positions w and r (lines 90-91).
Available(w, r) == capacity - SubMask(w, r, mask) - 1

\* The too-large test with >= in place of >: an entry of C/2 bytes is refused.
TooLargeFromHalf(total) == total >= capacity \div 2

\* The too-large test of line 74.
TooLarge(total) == total > capacity \div 2

\* The history record of an entry reserved at offset l.write_pos by the call with
\* locals l: who reserved it, the timestamp of the write call it interrupted (0:
\* none), and whether the ring was empty at the CAS.
Reservation(l, by, inside) ==
    [at |-> l.write_pos, advance |-> align_up(total_size(l.msg_len)),
     level |-> l.level, timestamp |-> l.timestamp, message |-> l.message,
     length |-> l.msg_len, by |-> by, inside |-> inside, empty |-> (write_pos = read_pos),
     published |-> FALSE, consumed |-> FALSE]

\* unilog_set_level (lines 41-46): store the threshold.
unilog_set_level(level) ==
    /\ min_level' = level
    /\ levels' = [levels EXCEPT !.set = <<level>>]
    /\ UNCHANGED <<label, setup, capacity, write_pos, read_pos, buffer, wr, rd,
                   clock, reserved, delivered>>

\* unilog_get_level (lines 48-53).
unilog_get_level == min_level

\* A call of unilog_get_level(log) returns.
GetLevelCall ==
    /\ levels.got = <<>>
    /\ levels' = [levels EXCEPT !.got = <<unilog_get_level>>]
    /\ UNCHANGED <<label, setup, shared, wr, rd, clock, reserved, delivered>>

\* The caller goes on to its next call of unilog_get_level.
GetLevelReturn ==
    /\ levels.got # <<>>
    /\ levels' = [levels EXCEPT !.got = <<>>]
    /\ UNCHANGED <<label, setup, shared, wr, rd, clock, reserved, delivered>>

\* The validation with the size check made before the level check.
WriteEnterSizeFirst(call, null) ==
    IF null
    THEN [call EXCEPT !.pc = "done", !.ret = UNILOG_ERR_INVALID, !.null = TRUE]
    ELSE IF TooLarge(total_size(call.msg_len))
    THEN [call EXCEPT !.pc = "done", !.ret = UNILOG_ERR_INVALID]
    ELSE IF call.level < min_level
    THEN [call EXCEPT !.pc = "done", !.ret = UNILOG_OK]
    ELSE [call EXCEPT !.pc = "load_write_pos"]

\* The validation of a write call, lines 58-77 (and unilog_write's null check):
\* the locals with which the call goes on, or returns.
WriteEnter(call, null) ==
    IF null
    THEN [call EXCEPT !.pc = "done", !.ret = UNILOG_ERR_INVALID, !.null = TRUE]
    ELSE IF call.level < min_level
    THEN [call EXCEPT !.pc = "done", !.ret = UNILOG_OK]
    ELSE IF TooLarge(total_size(call.msg_len))
    THEN [call EXCEPT !.pc = "done", !.ret = UNILOG_ERR_INVALID]
    ELSE [call EXCEPT !.pc = "load_write_pos"]

\* The locals of a write call made now: unilog_write takes the length by strlen,
\* unilog_write_raw from its caller (lines 163-175).
NewCall(level, message) ==
    [IdleWriter EXCEPT !.level = level, !.timestamp = ClockAt(clock + 1),
                       !.message = message.bytes,
                       !.msg_len = message.length]

\* A write call begins: producer p calls unilog_write(log, level, now, message).
WriteCall(p, level, message) ==
    /\ wr[p].pc = "idle"
    /\ clock < MaxWrites
    /\ clock' = clock + 1
    /\ wr' = [wr EXCEPT ![p] = WriteEnter(NewCall(level, message), message.null)]
    /\ UNCHANGED <<levels, label, setup, shared, rd, reserved, delivered>>

\* The top of the reservation loop with the threshold loaded again on every
\* iteration: a write whose level has fallen below it is dropped.
WriteLoadWritePosRechecking(p) ==
    /\ wr[p].pc = "load_write_pos"
    /\ wr' = [wr EXCEPT ![p] =
            IF wr[p].level < min_level
            THEN [wr[p] EXCEPT !.pc = "done", !.ret = UNILOG_OK]
            ELSE [wr[p] EXCEPT !.write_pos = write_pos,
                               !.pc = "load_read_pos"]]
    /\ UNCHANGED <<levels, label, setup, shared, rd, clock, reserved,
                   delivered>>

\* Line 86: write_pos = atomic_load(&log->buffer.write_pos).
WriteLoadWritePos(p) ==
    /\ wr[p].pc = "load_write_pos"
    /\ wr' = [wr EXCEPT ![p].write_pos = write_pos, ![p].pc = "load_read_pos"]
    /\ UNCHANGED <<levels, label, setup, shared, rd, clock, reserved,
                   delivered>>

\* The load of read_pos in a loop that tries again, instead of returning FULL,
\* until there is room.
WriteLoadReadPosWaiting(p) ==
    /\ wr[p].pc = "load_read_pos"
    /\ LET l == wr[p]
           advance_by == align_up(total_size(l.msg_len))
       IN  wr' = [wr EXCEPT ![p] =
                IF advance_by > Available(l.write_pos, read_pos)
                THEN [l EXCEPT !.read_pos = read_pos, !.pc = "load_write_pos"]
                ELSE [l EXCEPT !.read_pos = read_pos, !.pc = "cas",
                               !.new_write_pos =
                                   AddMask(l.write_pos, advance_by, mask)]]
    /\ UNCHANGED <<levels, label, setup, shared, rd, clock, reserved,
                   delivered>>

\* Lines 87-97: load read_pos, compute the free space, return FULL or go on to the CAS.
WriteLoadReadPos(p) ==
    /\ wr[p].pc = "load_read_pos"
    /\ LET l == wr[p]
           advance_by == align_up(total_size(l.msg_len))
       IN  wr' = [wr EXCEPT ![p] =
                IF advance_by > Available(l.write_pos, read_pos)
                THEN [l EXCEPT !.read_pos = read_pos, !.pc = "done",
                               !.ret = UNILOG_ERR_FULL]
                ELSE [l EXCEPT !.read_pos = read_pos, !.pc = "cas",
                               !.new_write_pos =
                                   AddMask(l.write_pos, advance_by, mask)]]
    /\ UNCHANGED <<levels, label, setup, shared, rd, clock, reserved,
                   delivered>>

\* Lines 98-100: the weak compare-exchange on write_pos. It succeeds only when
\* write_pos still holds the loaded value; it may fail otherwise or spuriously,
\* and the loop then loads again.
WriteCas(p) ==
    /\ wr[p].pc = "cas"
    /\ LET l == wr[p] IN
        \/ /\ write_pos = l.write_pos
           /\ write_pos' = l.new_write_pos
           /\ reserved' = Append(reserved, Reservation(l, p, 0))
           /\ wr' = [wr EXCEPT ![p] =
                    [l EXCEPT !.pc = "copy_header",
                              !.pos = AddMask(l.write_pos, LengthSize, mask),
                              !.i = LengthSize,
                              !.entry = Len(reserved) + 1]]
           /\ UNCHANGED <<levels, label, setup, capacity, read_pos, buffer,
                          min_level, rd, clock, delivered>>
        \/ /\ wr' = [wr EXCEPT ![p].pc = "load_write_pos"]
           /\ UNCHANGED <<levels, label, setup, shared, rd, clock, reserved,
                          delivered>>

\* Where the write goes once the message bytes are copied (lines 126, 132).
AfterMessage(pos, new_write_pos) ==
    IF pos # new_write_pos THEN "pad" ELSE "publish"

\* Lines 114-117: one iteration of the header copy (the length word excluded).
WriteCopyHeader(p) ==
    /\ wr[p].pc = "copy_header"
    /\ LET l == wr[p]
           next == AddMask(l.pos, 1, mask)
       IN  /\ buffer' = [buffer EXCEPT
                            ![l.pos] = HeaderByte(l.level, l.timestamp, l.i)]
           /\ wr' = [wr EXCEPT ![p] =
                    IF l.i + 1 < HeaderSize
                    THEN [l EXCEPT !.pos = next, !.i = l.i + 1]
                    ELSE [l EXCEPT !.pos = next, !.i = 0,
                                   !.pc = IF Below(0, l.msg_len) THEN "copy_message"
                                          ELSE AfterMessage(next, l.new_write_pos)]]
    /\ UNCHANGED <<levels, label, setup, capacity, write_pos, read_pos,
                   min_level, rd, clock, reserved, delivered>>

\* The ring bytes after the message copy of a length of 2^32 - m bytes has run
\* all its iterations from offset pos with no other access in between: every
\* ring offset holds the byte of the last iteration that stored there.
BulkCopied(message, m, pos) ==
    LET end == SubMask(pos, m % (mask + 1), mask)
        last(a) == SubMask(end, a + 1, mask)
    IN  [a \in DOMAIN buffer |->
            MessageByte(message,
                        HugeMod(m + 1 + last(a), Len(message)))]

\* Lines 120-123: one iteration of the message copy. For a length of 2^32 - m
\* bytes the iterations are taken together, as one step.
WriteCopyMessage(p) ==
    /\ wr[p].pc = "copy_message"
    /\ LET l == wr[p]
           next == AddMask(l.pos, 1, mask)
           end == SubMask(l.pos, (-l.msg_len) % (mask + 1), mask)
       IN  IF l.msg_len < 0
           THEN /\ buffer' = BulkCopied(l.message, -l.msg_len, l.pos)
                /\ wr' = [wr EXCEPT ![p] =
                        [l EXCEPT !.pos = end, !.i = 0,
                                  !.pc = AfterMessage(end, l.new_write_pos)]]
           ELSE /\ buffer' = [buffer EXCEPT
                                ![l.pos] = MessageByte(l.message, l.i)]
                /\ wr' = [wr EXCEPT ![p] =
                        IF l.i + 1 < l.msg_len
                        THEN [l EXCEPT !.pos = next, !.i = l.i + 1]
                        ELSE [l EXCEPT !.pos = next, !.i = 0,
                                       !.pc = AfterMessage(next,
                                                           l.new_write_pos)]]
    /\ UNCHANGED <<levels, label, setup, capacity, write_pos, read_pos,
                   min_level, rd, clock, reserved, delivered>>

\* The padding loop clearing a whole word per iteration: pos advances by 4.
WritePadWords(p) ==
    /\ wr[p].pc = "pad"
    /\ LET l == wr[p]
           next == AddMask(l.pos, LengthSize, mask)
       IN  /\ buffer' = StoreWord(buffer, l.pos, 0)
           /\ wr' = [wr EXCEPT ![p] =
                    [l EXCEPT !.pos = next,
                              !.pc = AfterMessage(next, l.new_write_pos)]]
    /\ UNCHANGED <<levels, label, setup, capacity, write_pos, read_pos,
                   min_level, rd, clock, reserved, delivered>>

\* Lines 126-129: one iteration of the padding loop.
WritePad(p) ==
    /\ wr[p].pc = "pad"
    /\ LET l == wr[p]
           next == AddMask(l.pos, 1, mask)
       IN  /\ buffer' = [buffer EXCEPT ![l.pos] = 0]
           /\ wr' = [wr EXCEPT ![p] =
                    [l EXCEPT !.pos = next,
                              !.pc = AfterMessage(next, l.new_write_pos)]]
    /\ UNCHANGED <<levels, label, setup, capacity, write_pos, read_pos,
                   min_level, rd, clock, reserved, delivered>>

\* Lines 132-135: the release store of the length word, then return OK.
WritePublish(p) ==
    /\ wr[p].pc = "publish"
    /\ LET l == wr[p] IN
        /\ buffer' = StoreWord(buffer, l.write_pos, total_size(l.msg_len))
        /\ reserved' = [reserved EXCEPT ![l.entry].published = TRUE]
        /\ wr' = [wr EXCEPT ![p] = [l EXCEPT !.pc = "done", !.ret = UNILOG_OK]]
    /\ UNCHANGED <<levels, label, setup, capacity, write_pos, read_pos,
                   min_level, rd, clock, delivered>>

\* The call has returned and its caller goes on.
WriteReturn(p) ==
    /\ wr[p].pc = "done"
    /\ wr' = [wr EXCEPT ![p] = IdleWriter]
    /\ UNCHANGED <<levels, label, setup, shared, rd, clock, reserved,
                   delivered>>

\* Byte k of the entry a write call with locals l stores: the length word, the
\* header, the message, the zero padding (lines 105-133).
EntryByte(l, k) ==
    IF k < LengthSize THEN ByteOf(total_size(l.msg_len), k)
    ELSE IF k < HeaderSize THEN HeaderByte(l.level, l.timestamp, k)
    ELSE IF k < total_size(l.msg_len) THEN MessageByte(l.message, k - HeaderSize)
    ELSE 0

\* The ring bytes after a whole write call with locals l stored its entry at
\* offset l.write_pos.
Stored(l) ==
    LET advance_by == align_up(total_size(l.msg_len)) IN
    [a \in DOMAIN buffer |->
        IF SubMask(a, l.write_pos, mask) < advance_by
        THEN EntryByte(l, SubMask(a, l.write_pos, mask))
        ELSE buffer[a]]

\* A signal handler calls unilog_write and runs from start to finish before the
\* thread it interrupted goes on (tests/test_signal.c, signal_handler): the whole
\* of unilog_write_internal in one step. inside is the timestamp of the write
\* call it interrupted (0: none).
SignalWrite(level, message, inside) ==
    /\ clock < MaxWrites
    /\ clock' = clock + 1
    /\ LET call == WriteEnter(NewCall(level, message), message.null)
           l == [call EXCEPT !.write_pos = write_pos, !.read_pos = read_pos]
           advance_by == align_up(total_size(l.msg_len))
       IN  IF call.pc = "done" \/ advance_by > Available(write_pos, read_pos)
           THEN UNCHANGED <<levels, label, setup, write_pos, buffer, reserved>>
           ELSE /\ write_pos' = AddMask(write_pos, advance_by, mask)
                /\ buffer' = Stored(l)
                /\ reserved' = Append(reserved,
                        [Reservation(l, "signal", inside) EXCEPT
                            !.published = TRUE])
    /\ UNCHANGED <<levels, label, setup, capacity, read_pos, min_level, wr, rd,
                   delivered>>

\* ---------------------------------------------------------- introspection
\* unilog_available: (write_pos - read_pos) & mask.
unilog_available == SubMask(write_pos, read_pos, mask)

\* unilog_is_empty: write_pos == read_pos.
unilog_is_empty == write_pos = read_pos

\* ------------------------------------------------------------ the consumer
\* copy_len with no byte of the buffer kept for the terminator.
CopyLenWhole(total, buffer_size) ==
    IF total >= HeaderSize /\ total - HeaderSize < buffer_size
    THEN total - HeaderSize
    ELSE buffer_size

\* a < b for two uint32 values held as their 32-bit two's-complement
\* representatives (2^32 - m is written -m).
UnsignedLess(a, b) == IF (a < 0) = (b < 0) THEN a < b ELSE b < 0

\* Lines 224-225, for buffer sizes below 2^32: msg_len = total_size - 12 in
\* uint32, copy_len = msg_len < buffer_size ? msg_len : buffer_size - 1. copy_len
\* is held as its representative, which is also the value of (int)copy_len.
CopyLen(total, buffer_size) ==
    IF UnsignedLess(total - HeaderSize, buffer_size)
    THEN total - HeaderSize
    ELSE buffer_size - 1

\* The caller's output variables before the call: nothing written yet (-1), the
\* message buffer followed by one guard byte. Of a buffer of 2^31 bytes and more
\* (buffer_size < 0) the first capacity bytes are kept.
FreshOutputs(l, buffer_size) ==
    [l EXCEPT !.level = -1, !.timestamp = -1,
              !.out = IF buffer_size < 0
                      THEN [k \in 1 .. capacity |-> -1]
                      ELSE [k \in 1 .. buffer_size + 1 |-> -1]]

\* A read call begins (line 179): the consumer calls unilog_read with a message
\* buffer of buffer_size bytes.
ReadCall(buffer_size) ==
    /\ rd.pc = "idle"
    /\ Len(delivered) < MaxReads
    /\ rd' = IF buffer_size = 0
             THEN [FreshOutputs(IdleReader, 0) EXCEPT
                       !.pc = "done", !.ret = UNILOG_ERR_INVALID]
             ELSE [FreshOutputs(IdleReader, buffer_size) EXCEPT
                       !.pc = "load_read_pos", !.buffer_size = buffer_size]
    /\ UNCHANGED <<levels, label, setup, shared, wr, clock, reserved,
                   delivered>>

\* Line 187: read_pos = atomic_load(&log->buffer.read_pos).
ReadLoadReadPos ==
    /\ rd.pc = "load_read_pos"
    /\ rd' = [rd EXCEPT !.read_pos = read_pos, !.pc = "load_write_pos"]
    /\ UNCHANGED <<levels, label, setup, shared, wr, clock, reserved,
                   delivered>>

\* The load of write_pos with an EMPTY return that stores a terminator in the
\* message buffer.
ReadLoadWritePosTerminating ==
    /\ rd.pc = "load_write_pos"
    /\ rd' = IF rd.read_pos = write_pos
             THEN [rd EXCEPT !.write_pos = write_pos, !.pc = "done",
                             !.out[1] = 0, !.ret = UNILOG_ERR_EMPTY]
             ELSE [rd EXCEPT !.write_pos = write_pos, !.pc = "load_length"]
    /\ UNCHANGED <<levels, label, setup, shared, wr, clock, reserved,
                   delivered>>

\* Lines 188-193: load write_pos; the ring is empty when the positions are equal.
ReadLoadWritePos ==
    /\ rd.pc = "load_write_pos"
    /\ rd' = IF rd.read_pos = write_pos
             THEN [rd EXCEPT !.write_pos = write_pos, !.pc = "done",
                             !.ret = UNILOG_ERR_EMPTY]
             ELSE [rd EXCEPT !.write_pos = write_pos, !.pc = "load_length"]
    /\ UNCHANGED <<levels, label, setup, shared, wr, clock, reserved,
                   delivered>>

\* Lines 198-205: the acquire load of the length word; BUSY when it is zero,
\* INVALID when it exceeds capacity / 2.
ReadLoadLength ==
    /\ rd.pc = "load_length"
    /\ LET total == LoadWord(buffer, rd.read_pos) IN
        rd' = IF total = 0
              THEN [rd EXCEPT !.pc = "done", !.ret = UNILOG_ERR_BUSY]
              ELSE IF TooLarge(total)
              THEN [rd EXCEPT !.pc = "done", !.ret = UNILOG_ERR_INVALID]
              ELSE [rd EXCEPT !.total_size = total, !.pc = "clear_length"]
    /\ UNCHANGED <<levels, label, setup, shared, wr, clock, reserved,
                   delivered>>

\* Lines 207-213: store zero into the length word and start the header copy.
ReadClearLength ==
    /\ rd.pc = "clear_length"
    /\ buffer' = StoreWord(buffer, rd.read_pos, 0)
    /\ rd' = [rd EXCEPT !.pc = "copy_header",
                        !.pos = AddMask(rd.read_pos, LengthSize, mask),
                        !.i = LengthSize]
    /\ UNCHANGED <<levels, label, setup, capacity, write_pos, read_pos,
                   min_level, wr, clock, reserved, delivered>>

\* Lines 214-225: one iteration of the header copy (read the byte, zero it); after
\* the last one level and timestamp are stored to the outputs and copy_len is set.
ReadCopyHeader ==
    /\ rd.pc = "copy_header"
    /\ LET h == Append(rd.header, buffer[rd.pos])
           next == AddMask(rd.pos, 1, mask)
           copy_len == CopyLen(rd.total_size, rd.buffer_size)
       IN  /\ buffer' = [buffer EXCEPT ![rd.pos] = 0]
           /\ rd' = IF rd.i + 1 < HeaderSize
                    THEN [rd EXCEPT !.header = h, !.pos = next, !.i = rd.i + 1]
                    ELSE [rd EXCEPT !.header = <<>>, !.pos = next, !.i = 0,
                                    !.level = WordOf(h[1], h[2], h[3], h[4]),
                                    !.timestamp = WordOf(h[5], h[6], h[7], h[8]),
                                    !.copy_len = copy_len,
                                    !.pc = IF copy_len # 0 THEN "copy_message"
                                           ELSE "store_read_pos"]
    /\ UNCHANGED <<levels, label, setup, capacity, write_pos, read_pos,
                   min_level, wr, clock, reserved, delivered>>

\* Lines 228-232: one iteration of the message copy (read the byte, zero it).
\* For a copy_len of 2^31 and more the iterations are taken together, as one
\* step: the first lap hands the ring bytes to the caller and zeroes them.
ReadCopyMessage ==
    /\ rd.pc = "copy_message"
    /\ IF rd.copy_len < 0
       THEN /\ buffer' = [a \in DOMAIN buffer |-> 0]
            /\ rd' = [rd EXCEPT
                        !.out = [k \in 1 .. capacity |->
                                    buffer[AddMask(rd.pos, k - 1, mask)]],
                        !.pos = AddMask(rd.pos, rd.copy_len % capacity, mask),
                        !.i = 0,
                        !.pc = "store_read_pos"]
       ELSE /\ buffer' = [buffer EXCEPT ![rd.pos] = 0]
            /\ rd' = [rd EXCEPT
                        !.out[rd.i + 1] = buffer[rd.pos],
                        !.pos = AddMask(rd.pos, 1, mask),
                        !.i = IF rd.i + 1 < rd.copy_len THEN rd.i + 1 ELSE 0,
                        !.pc = IF rd.i + 1 < rd.copy_len THEN "copy_message"
                               ELSE "store_read_pos"]
    /\ UNCHANGED <<levels, label, setup, capacity, write_pos, read_pos,
                   min_level, wr, clock, reserved, delivered>>

\* What a read that consumed an entry hands back.
Delivery(l) ==
    [at |-> l.read_pos, level |-> l.level, timestamp |-> l.timestamp,
     bytes |-> IF l.copy_len < 0 THEN l.out ELSE SubSeq(l.out, 1, l.copy_len),
     terminator |-> IF l.copy_len < 0 THEN 0 ELSE l.out[l.copy_len + 1],
     total_size |-> l.total_size, buffer_size |-> l.buffer_size,
     ret |-> l.copy_len, entry |-> l.entry]

\* The read returns copy_len (line 246).
ReadFinish(l) == [l EXCEPT !.pc = "done", !.ret = l.copy_len]

\* Lines 233-238: the terminator, then the release store of the new read_pos.
ReadStoreReadPos ==
    /\ rd.pc = "store_read_pos"
    /\ LET new_read_pos ==
               AddMask(rd.read_pos, align_up(rd.total_size), mask)
           l == [rd EXCEPT !.out = IF rd.copy_len < 0 THEN rd.out
                                   ELSE [rd.out EXCEPT ![rd.copy_len + 1] = 0],
                           !.new_read_pos = new_read_pos,
                           !.entry = Consumed(rd.read_pos)]
       IN  /\ read_pos' = new_read_pos
           /\ IF rd.pos # new_read_pos
              THEN /\ rd' = [l EXCEPT !.pc = "clear_padding"]
                   /\ delivered' = delivered
              ELSE /\ rd' = ReadFinish(l)
                   /\ delivered' = Append(delivered, Delivery(l))
           /\ reserved' = Consume(rd.read_pos)
    /\ UNCHANGED <<levels, label, setup, capacity, write_pos, buffer,
                   min_level, wr, clock>>

\* Lines 241-244: one iteration of the loop that zeroes up to the new read_pos.
ReadClearPadding ==
    /\ rd.pc = "clear_padding"
    /\ LET next == AddMask(rd.pos, 1, mask) IN
        /\ buffer' = [buffer EXCEPT ![rd.pos] = 0]
        /\ IF next # rd.new_read_pos
           THEN /\ rd' = [rd EXCEPT !.pos = next]
                /\ delivered' = delivered
           ELSE /\ rd' = ReadFinish([rd EXCEPT !.pos = next])
                /\ delivered' = Append(delivered, Delivery(rd))
    /\ UNCHANGED <<levels, label, setup, capacity, write_pos, read_pos,
                   min_level, wr, clock, reserved>>

\* The call has returned and its caller goes on.
ReadReturn ==
    /\ rd.pc = "done"
    /\ rd' = IdleReader
    /\ UNCHANGED <<levels, label, setup, shared, wr, clock, reserved,
                   delivered>>

\* ------------------------------------------------------- the specifications
\* The messages passed to write calls: a valid pointer with its bytes and the
\* length passed, a buffer of 2^32 - m bytes that repeats bytes, a null pointer.
Msg(bytes) == [null |-> FALSE, bytes |-> bytes, length |-> Len(bytes)]
HugeMsg(bytes, m) == [null |-> FALSE, bytes |-> bytes, length |-> -m]
NullMsg == [null |-> TRUE, bytes |-> <<>>, length |-> 0]

\* Threads: two producers and the consumer on a ring of 32 bytes. Every entry
\* holds a payload of 2 bytes: 14 bytes in all, 16 reserved (capacity / 2), 2 of
\* them padding. The producers log at different levels, as the tests' writer
\* thread and signal handler do.
ThreadCapacities == {32}
ThreadLevels(p) == IF p = "p1" THEN {UNILOG_LEVEL_INFO} ELSE {UNILOG_LEVEL_WARN}
ThreadMessages == {Msg(<<65, 66>>)}
ThreadBufferSizes == {8}

Init == \E cap \in ThreadCapacities : unilog_init(cap)

Next ==
    \/ \E p \in Producers, message \in ThreadMessages :
        \E level \in ThreadLevels(p) :
            WriteCall(p, level, message)
    \/ \E p \in Producers : WriteLoadWritePos(p)
    \/ \E p \in Producers : WriteLoadReadPos(p)
    \/ \E p \in Producers : WriteCas(p)
    \/ \E p \in Producers : WriteCopyHeader(p)
    \/ \E p \in Producers : WriteCopyMessage(p)
    \/ \E p \in Producers : WritePad(p)
    \/ \E p \in Producers : WritePublish(p)
    \/ \E p \in Producers : WriteReturn(p)
    \/ \E buffer_size \in ThreadBufferSizes : ReadCall(buffer_size)
    \/ ReadLoadReadPos
    \/ ReadLoadWritePos
    \/ ReadLoadLength
    \/ ReadClearLength
    \/ ReadCopyHeader
    \/ ReadCopyMessage
    \/ ReadStoreReadPos
    \/ ReadClearPadding
    \/ ReadReturn

Spec == Init /\ [][Next]_vars

\* Calls that run to completion one after the other, on rings of 16 and of 32
\* bytes: entries of 12, 13 and 16 bytes, a payload of 5 bytes too large for
\* either ring, a buffer of 2^32 - 8 bytes 'X' passed to unilog_write_raw with
\* its length, and a null message.
SequentialCapacities == {16, 32}
SequentialLevels == {UNILOG_LEVEL_DEBUG, UNILOG_LEVEL_FATAL}
SequentialMessages ==
    {Msg(<<>>), Msg(<<65>>), Msg(<<66, 67, 68, 69>>),
     Msg(<<70, 71, 72, 73, 74>>), HugeMsg(<<88>>, 8), NullMsg}
SequentialBufferSizes == {8}

\* No call is in progress.
Quiet == rd.pc = "idle" /\ \A p \in Producers : wr[p].pc = "idle"

InitSequential == \E cap \in SequentialCapacities : unilog_init(cap)

NextSequential ==
    \/ /\ Quiet
       /\ \E level \in SequentialLevels, message \in SequentialMessages :
            WriteCall("p1", level, message)
    \/ WriteLoadWritePos("p1")
    \/ WriteLoadReadPos("p1")
    \/ WriteCas("p1")
    \/ WriteCopyHeader("p1")
    \/ WriteCopyMessage("p1")
    \/ WritePad("p1")
    \/ WritePublish("p1")
    \/ WriteReturn("p1")
    \/ /\ Quiet
       /\ \E buffer_size \in SequentialBufferSizes : ReadCall(buffer_size)
    \/ ReadLoadReadPos
    \/ ReadLoadWritePos
    \/ ReadLoadLength
    \/ ReadClearLength
    \/ ReadCopyHeader
    \/ ReadCopyMessage
    \/ ReadStoreReadPos
    \/ ReadClearPadding
    \/ ReadReturn

SpecSequential == InitSequential /\ [][NextSequential]_vars

\* A writer thread interrupted, while a write call of it is in progress, by a
\* signal handler that writes; the consumer is another thread
\* (tests/test_signal.c, test_signal_interrupt_writer).
InWrite(p) == wr[p].pc \notin {"idle", "done"}

NextSignalWriter ==
    \/ \E message \in ThreadMessages :
            WriteCall("p1", UNILOG_LEVEL_INFO, message)
    \/ WriteLoadWritePos("p1")
    \/ WriteLoadReadPos("p1")
    \/ WriteCas("p1")
    \/ WriteCopyHeader("p1")
    \/ WriteCopyMessage("p1")
    \/ WritePad("p1")
    \/ WritePublish("p1")
    \/ WriteReturn("p1")
    \/ /\ InWrite("p1")
       /\ \E message \in ThreadMessages :
            SignalWrite(UNILOG_LEVEL_WARN, message, wr["p1"].timestamp)
    \/ \E buffer_size \in ThreadBufferSizes : ReadCall(buffer_size)
    \/ ReadLoadReadPos
    \/ ReadLoadWritePos
    \/ ReadLoadLength
    \/ ReadClearLength
    \/ ReadCopyHeader
    \/ ReadCopyMessage
    \/ ReadStoreReadPos
    \/ ReadClearPadding
    \/ ReadReturn

SpecSignalWriter == Init /\ [][NextSignalWriter]_vars

\* The consumer thread interrupted by a signal handler that writes, on a ring of
\* 64 bytes; the handler is the only producer (tests/test_signal.c,
\* test_signal_interrupt_reader). Every entry holds a payload of 8 bytes (20 bytes
\* in all) and is read into a buffer of 1 byte or of 24.
SignalReaderCapacities == {64}
SignalReaderMessages == {Msg(<<65, 66, 67, 68, 69, 70, 71, 72>>)}
SignalReaderBufferSizes == {1, 24}

InitSignalReader == \E cap \in SignalReaderCapacities : unilog_init(cap)

NextSignalReader ==
    \/ \E message \in SignalReaderMessages :
            SignalWrite(UNILOG_LEVEL_WARN, message, 0)
    \/ \E buffer_size \in SignalReaderBufferSizes : ReadCall(buffer_size)
    \/ ReadLoadReadPos
    \/ ReadLoadWritePos
    \/ ReadLoadLength
    \/ ReadClearLength
    \/ ReadCopyHeader
    \/ ReadCopyMessage
    \/ ReadStoreReadPos
    \/ ReadClearPadding
    \/ ReadReturn

SpecSignalReader == InitSignalReader /\ [][NextSignalReader]_vars

\* Calls made one after the other on a ring of 64 bytes, with the threshold set
\* between them (tests/test_basic.c, test_level_filtering): payloads of 1 byte
\* and of 21 bytes (too large for the ring), and a null message.
LevelCapacities == {64}
LevelThresholds == {UNILOG_LEVEL_TRACE, UNILOG_LEVEL_WARN, UNILOG_LEVEL_NONE}
LevelLevels == {UNILOG_LEVEL_DEBUG, UNILOG_LEVEL_INFO, UNILOG_LEVEL_WARN,
                UNILOG_LEVEL_ERROR}
LevelMessages ==
    {Msg(<<65>>), Msg([k \in 1 .. 21 |-> 66]), NullMsg}
LevelBufferSizes == {4}

InitLevels == \E cap \in LevelCapacities : unilog_init(cap)

NextLevels ==
    \/ /\ Quiet
       /\ \E level \in LevelThresholds : unilog_set_level(level)
    \/ /\ Quiet
       /\ \E level \in LevelLevels, message \in LevelMessages :
            WriteCall("p1", level, message)
    \/ WriteLoadWritePos("p1")
    \/ WriteLoadReadPos("p1")
    \/ WriteCas("p1")
    \/ WriteCopyHeader("p1")
    \/ WriteCopyMessage("p1")
    \/ WritePad("p1")
    \/ WritePublish("p1")
    \/ WriteReturn("p1")
    \/ /\ Quiet
       /\ \E buffer_size \in LevelBufferSizes : ReadCall(buffer_size)
    \/ ReadLoadReadPos
    \/ ReadLoadWritePos
    \/ ReadLoadLength
    \/ ReadClearLength
    \/ ReadCopyHeader
    \/ ReadCopyMessage
    \/ ReadStoreReadPos
    \/ ReadClearPadding
    \/ ReadReturn

SpecLevels == InitLevels /\ [][NextLevels]_vars

\* Calls made one after the other on a ring of 32 bytes, read into buffers of 1,
\* 3 and 5 bytes (tests/test_buffer.c, test_truncated_read): payloads of 2 and of
\* 4 bytes, and a buffer of 2^32 - 8 bytes passed to unilog_write_raw.
TruncateCapacities == {32}
TruncateMessages ==
    {Msg(<<65, 66>>), Msg(<<67, 68, 69, 70>>), HugeMsg(<<88>>, 8)}
TruncateBufferSizes == {1, 3, 5}

InitTruncate == \E cap \in TruncateCapacities : unilog_init(cap)

NextTruncate ==
    \/ /\ Quiet
       /\ \E message \in TruncateMessages :
            WriteCall("p1", UNILOG_LEVEL_INFO, message)
    \/ WriteLoadWritePos("p1")
    \/ WriteLoadReadPos("p1")
    \/ WriteCas("p1")
    \/ WriteCopyHeader("p1")
    \/ WriteCopyMessage("p1")
    \/ WritePad("p1")
    \/ WritePublish("p1")
    \/ WriteReturn("p1")
    \/ /\ Quiet
       /\ \E buffer_size \in TruncateBufferSizes : ReadCall(buffer_size)
    \/ ReadLoadReadPos
    \/ ReadLoadWritePos
    \/ ReadLoadLength
    \/ ReadClearLength
    \/ ReadCopyHeader
    \/ ReadCopyMessage
    \/ ReadStoreReadPos
    \/ ReadClearPadding
    \/ ReadReturn

SpecTruncate == InitTruncate /\ [][NextTruncate]_vars

\* unilog_init called, again and again, on a handle and on backing bytes that
\* hold anything, with null and non-null pointers and with capacity 0, 3 or the
\* number of backing bytes; after a call that returned OK the consumer reads
\* (tests/test_basic.c, test_init).
InitSizes == {1, 2, 4, 8, 12, 16, 24, 32}
InitCapacities(size) == {0, 3, size}
InitBufferSizes == {4}

InitUninitialised ==
    /\ capacity \in {0, 5}
    /\ write_pos \in {0, 7}
    /\ read_pos \in {0, 3}
    /\ min_level \in {UNILOG_LEVEL_TRACE, UNILOG_LEVEL_ERROR}
    /\ buffer \in {[a \in 0 .. size - 1 |-> 85] : size \in InitSizes}
    /\ wr = [p \in Producers |-> IdleWriter]
    /\ rd = IdleReader
    /\ clock = 0
    /\ setup = NoSetup
    /\ label = NoLabel
    /\ levels = NoLevels
    /\ reserved = <<>>
    /\ delivered = <<>>

NextInit ==
    \/ \E log \in BOOLEAN, buf \in BOOLEAN :
        \E cap \in InitCapacities(Cardinality(DOMAIN buffer)) :
            InitCall(log, buf, cap)
    \/ InitReturn
    \/ /\ setup.pc = "done"
       /\ setup.ret = UNILOG_OK
       /\ \E buffer_size \in InitBufferSizes : ReadCall(buffer_size)
    \/ ReadLoadReadPos
    \/ ReadLoadWritePos
    \/ ReadReturn

SpecInit == InitUninitialised /\ [][NextInit]_vars

\* Two producer threads on a ring of 64 bytes that nobody reads: producer p2 is
\* scheduled again and again, while p1 may stop at any step for good. A weak
\* compare-exchange that finds the expected value may fail spuriously, but not
\* every time.
StallCapacities == {64}
InitStall == \E cap \in StallCapacities : unilog_init(cap)

\* A step of the write call of p.
WriteStep(p) ==
    \/ WriteLoadWritePos(p)
    \/ WriteLoadReadPos(p)
    \/ WriteCas(p)
    \/ WriteCopyHeader(p)
    \/ WriteCopyMessage(p)
    \/ WritePad(p)
    \/ WritePublish(p)

\* The compare-exchange of p succeeds.
WriteCasSucceeds(p) == WriteCas(p) /\ wr'[p].pc = "copy_header"

NextStall ==
    \/ \E p \in Producers, message \in ThreadMessages :
        \E level \in ThreadLevels(p) :
            WriteCall(p, level, message)
    \/ \E p \in Producers : WriteLoadWritePos(p)
    \/ \E p \in Producers : WriteLoadReadPos(p)
    \/ \E p \in Producers : WriteCas(p)
    \/ \E p \in Producers : WriteCopyHeader(p)
    \/ \E p \in Producers : WriteCopyMessage(p)
    \/ \E p \in Producers : WritePad(p)
    \/ \E p \in Producers : WritePublish(p)
    \/ \E p \in Producers : WriteReturn(p)

SpecStall ==
    /\ InitStall
    /\ [][NextStall]_vars
    /\ WF_vars(WriteStep("p2"))
    /\ SF_vars(WriteCasSucceeds("p2"))

\* unilog_level_name called with the seven levels and with other values of the
\* enum's underlying type (tests/test_basic.c, test_level_names).
LevelNameInputs == -64 .. 191

NextLevelName ==
    \/ \E level \in LevelNameInputs : LevelNameCall(level)
    \/ LevelNameReturn

SpecLevelName == Init /\ [][NextLevelName]_vars

\* The threshold changed and queried at any moment of the write calls of one
\* producer (tests/test_threadsafe.c, test_level_change_concurrent, run beside a
\* writer): a ring of 64 bytes that nobody reads, entries of 16 bytes.
LevelChangeCapacities == {64}
LevelChangeThresholds == {UNILOG_LEVEL_TRACE, UNILOG_LEVEL_WARN}
LevelChangeLevels == {UNILOG_LEVEL_INFO, UNILOG_LEVEL_ERROR}
LevelChangeMessages == {Msg(<<65, 66>>)}

InitLevelChange == \E cap \in LevelChangeCapacities : unilog_init(cap)

NextLevelChange ==
    \/ \E level \in LevelChangeThresholds : unilog_set_level(level)
    \/ GetLevelCall
    \/ GetLevelReturn
    \/ \E level \in LevelChangeLevels, message \in LevelChangeMessages :
            WriteCall("p1", level, message)
    \/ WriteLoadWritePos("p1")
    \/ WriteLoadReadPos("p1")
    \/ WriteCas("p1")
    \/ WriteCopyHeader("p1")
    \/ WriteCopyMessage("p1")
    \/ WritePad("p1")
    \/ WritePublish("p1")
    \/ WriteReturn("p1")

SpecLevelChange == InitLevelChange /\ [][NextLevelChange]_vars

\* Two producers and the consumer on a ring of 32 bytes, entries of 16 bytes,
\* FinishWrites write calls in all. The steps of the consumer and of producer p2
\* are taken as long as they are possible, and the compare-exchange of p2, which
\* may fail spuriously, succeeds at some point if it is tried again and again
\* with write_pos unchanged; nothing is assumed of p1.
FinishWrites == 3
FinishBufferSizes == {1, 8}

\* A step of the read call.
ReadStep ==
    \/ ReadLoadReadPos
    \/ ReadLoadWritePos
    \/ ReadLoadLength
    \/ ReadClearLength
    \/ ReadCopyHeader
    \/ ReadCopyMessage
    \/ ReadStoreReadPos
    \/ ReadClearPadding

NextFinish ==
    \/ /\ clock < FinishWrites
       /\ \E p \in Producers, message \in ThreadMessages :
            \E level \in ThreadLevels(p) :
                WriteCall(p, level, message)
    \/ \E p \in Producers : WriteLoadWritePos(p)
    \/ \E p \in Producers : WriteLoadReadPos(p)
    \/ \E p \in Producers : WriteCas(p)
    \/ \E p \in Producers : WriteCopyHeader(p)
    \/ \E p \in Producers : WriteCopyMessage(p)
    \/ \E p \in Producers : WritePad(p)
    \/ \E p \in Producers : WritePublish(p)
    \/ \E p \in Producers : WriteReturn(p)
    \/ \E buffer_size \in FinishBufferSizes : ReadCall(buffer_size)
    \/ ReadLoadReadPos
    \/ ReadLoadWritePos
    \/ ReadLoadLength
    \/ ReadClearLength
    \/ ReadCopyHeader
    \/ ReadCopyMessage
    \/ ReadStoreReadPos
    \/ ReadClearPadding
    \/ ReadReturn

SpecFinish ==
    /\ Init
    /\ [][NextFinish]_vars
    /\ WF_vars(ReadStep)
    /\ WF_vars(WriteStep("p2"))
    /\ SF_vars(WriteCasSucceeds("p2"))

\* Calls made one after the other on a ring of 32 bytes: payloads of 0 and 2
\* bytes and a payload length of 2^32 - 8 written with unilog_write_raw, read
\* into buffers of 1 byte, of 3 bytes and of 2^31 + 1 bytes (written
\* -2147483647).
ReturnCapacities == {32}
ReturnMessages == {Msg(<<>>), Msg(<<65, 66>>), HugeMsg(<<88>>, 8)}
ReturnBufferSizes == {0, 1, 3, -2147483647}

InitReturns == \E cap \in ReturnCapacities : unilog_init(cap)

NextReturns ==
    \/ /\ Quiet
       /\ \E message \in ReturnMessages :
            WriteCall("p1", UNILOG_LEVEL_INFO, message)
    \/ WriteLoadWritePos("p1")
    \/ WriteLoadReadPos("p1")
    \/ WriteCas("p1")
    \/ WriteCopyHeader("p1")
    \/ WriteCopyMessage("p1")
    \/ WritePad("p1")
    \/ WritePublish("p1")
    \/ WriteReturn("p1")
    \/ /\ Quiet
       /\ \E buffer_size \in ReturnBufferSizes : ReadCall(buffer_size)
    \/ ReadLoadReadPos
    \/ ReadLoadWritePos
    \/ ReadLoadLength
    \/ ReadClearLength
    \/ ReadCopyHeader
    \/ ReadCopyMessage
    \/ ReadStoreReadPos
    \/ ReadClearPadding
    \/ ReadReturn

SpecReturns == InitReturns /\ [][NextReturns]_vars

\* ------------------------------------------------------------- the claims
WritersStopped == \A p \in Producers : wr[p].pc = "idle"

\* C1: the region a producer obtains by a successful CAS never overlaps a region
\* that was reserved earlier and is not yet consumed by read: any two reserved,
\* unconsumed regions are disjoint.
C1_NoOverwrite ==
    \A j \in Unconsumed : \A k \in Unconsumed :
        j < k => Region(reserved[j].at, reserved[j].advance)
                     \cap Region(reserved[k].at, reserved[k].advance) = {}

\* C2: the entries returned by read are at every moment a prefix of the entries in
\* order of CAS success: the k-th delivery is the k-th reservation.
C2_DeliveredIsPrefixOfReserved ==
    /\ Len(delivered) <= Len(reserved)
    /\ \A k \in 1 .. Len(delivered) :
            /\ delivered[k].at = reserved[k].at
            /\ delivered[k].timestamp = reserved[k].timestamp

\* The delivery d hands back exactly what the write call of reservation e passed.
Hands(d, e) ==
    /\ d.at = e.at
    /\ d.level = e.level
    /\ d.timestamp = e.timestamp
    /\ d.ret = IF Len(e.message) < d.buffer_size THEN Len(e.message)
               ELSE d.buffer_size - 1
    /\ d.bytes = SubSeq(e.message, 1, d.ret)
    /\ d.terminator = 0

\* C3: every entry returned by read carries the level, the timestamp and the first
\* copy_len payload bytes of one write call, followed by the null terminator.
C3_DeliveredIntact ==
    \A k \in 1 .. Len(delivered) :
        \E j \in 1 .. Len(reserved) : Hands(delivered[k], reserved[j])

RECURSIVE BytesRead(_)
\* The payload bytes the deliveries q returned in all.
BytesRead(q) == IF q = <<>> THEN 0 ELSE Head(q).ret + BytesRead(Tail(q))

RECURSIVE BytesWritten(_)
\* The payload bytes the reservations q were written with in all.
BytesWritten(q) ==
    IF q = <<>> THEN 0 ELSE Len(Head(q).message) + BytesWritten(Tail(q))

\* The reservations whose write call has published (and returned OK).
Published == SelectSeq(reserved, LAMBDA e : e.published)

\* Deliveries and writes agree in number and in payload bytes, and the ring is empty.
Accounted ==
    /\ Len(delivered) = Len(Published)
    /\ BytesRead(delivered) = BytesWritten(Published)
    /\ write_pos = read_pos

\* C5: once all producers have stopped and read returns EMPTY, the number of
\* delivered entries and the sum of their payload lengths equal those of the
\* writes that returned OK, and write_pos = read_pos.
C5_DrainedAccounting ==
    [][(/\ rd.pc = "load_write_pos"
        /\ rd'.pc = "done"
        /\ rd'.ret = UNILOG_ERR_EMPTY
        /\ WritersStopped) => Accounted']_vars

\* The outputs of the read in progress are as the caller left them.
OutputsUntouched(l) ==
    /\ l.level = -1
    /\ l.timestamp = -1
    /\ \A k \in DOMAIN l.out : l.out[k] = -1

\* C8: when read_pos # write_pos and an entry reserved at read_pos is not yet
\* published, read returns BUSY and leaves the positions, the ring bytes and the
\* outputs unchanged, delivering nothing.
C8_BusyAtUnpublishedHead ==
    [][(/\ rd.pc = "load_length"
        /\ rd'.pc # "load_length"
        /\ \E k \in UnconsumedAt(rd.read_pos) : ~reserved[k].published)
       => (/\ rd'.pc = "done"
           /\ rd'.ret = UNILOG_ERR_BUSY
           /\ OutputsUntouched(rd')
           /\ UNCHANGED <<write_pos, read_pos, buffer, delivered>>)]_vars

\* align4 and the free space, written out in plain arithmetic.
Align4(n) == ((n + 3) \div 4) * 4
FreeFor(w, r) == capacity - ((w - r) % capacity) - 1

\* The write of p has no room for the positions it loaded last.
NoRoom(p) ==
    Align4(12 + wr[p].msg_len) > FreeFor(wr[p].write_pos, wr[p].read_pos)

\* C9: a write returns FULL exactly when align4(12 + payload_len) exceeds
\* C - ((write_pos - read_pos) & mask) - 1 for the positions it loaded in its last
\* attempt (it goes on to the CAS exactly when it does not), and a write that
\* returns FULL reserved nothing: none of its steps changes write_pos, read_pos
\* or a ring byte.
C9_FullExactlyWhenNoRoom ==
    /\ [](\A p \in Producers :
            /\ (wr[p].pc = "done" /\ wr[p].ret = UNILOG_ERR_FULL)
                    => (NoRoom(p) /\ wr[p].entry = 0)
            /\ wr[p].pc = "cas" => ~NoRoom(p)
            /\ wr[p].entry # 0 => ~NoRoom(p))
    /\ [][\A p \in Producers :
            (wr'[p] # wr[p] /\ wr'[p].entry = 0 /\ wr[p].entry = 0)
                => UNCHANGED <<write_pos, read_pos, buffer>>]_vars

\* A write has returned FULL while the ring holds an entry.
C9_Witness ==
    \E p \in Producers :
        /\ wr[p].pc = "done"
        /\ wr[p].ret = UNILOG_ERR_FULL
        /\ write_pos # read_pos

\* Reservation k is the last one, made by a write into an empty ring with a
\* payload of at most C/2 - 12 bytes.
LastIntoEmpty(k) ==
    /\ k = Len(reserved)
    /\ reserved[k].empty
    /\ reserved[k].length >= 0
    /\ reserved[k].length <= capacity \div 2 - 12

\* The read that has returned consumed such an entry, and its buffer is larger
\* than the payload.
RoundTripped ==
    /\ rd.pc = "done"
    /\ rd.ret >= 0
    /\ rd.entry # 0
    /\ LastIntoEmpty(rd.entry)
    /\ rd.buffer_size > reserved[rd.entry].length

Oversize(p) == wr[p].msg_len < 0 \/ 12 + wr[p].msg_len > capacity \div 2

\* C10: a write call with level >= threshold whose total 12 + payload_len exceeds
\* C/2 has returned INVALID, a call with a total of at most C/2 and a non-null
\* message has not, and the step that returns INVALID changes neither write_pos
\* nor read_pos nor a ring byte.
C10_OversizeInvalid ==
    /\ [](\A p \in Producers :
            (wr[p].pc # "idle" /\ ~wr[p].null /\ wr[p].level >= min_level)
                => ((wr[p].pc = "done" /\ wr[p].ret = UNILOG_ERR_INVALID)
                        <=> Oversize(p)))
    /\ [][\A p \in Producers :
            (wr[p].pc # "done" /\ wr'[p].pc = "done"
                /\ wr'[p].ret = UNILOG_ERR_INVALID)
                => (wr[p].pc = "idle" /\ wr'[p].entry = 0
                        /\ UNCHANGED <<write_pos, read_pos, buffer>>)]_vars

\* Reservation k was made by a handler inside the write call of reservation j.
Nested(j, k) ==
    /\ reserved[j].by # "signal"
    /\ reserved[k].by = "signal"
    /\ reserved[k].inside = reserved[j].timestamp

\* C6: a handler's write inside a write call of the same thread reserves a region
\* disjoint from the outer call's and is published when the outer call returns,
\* the k-th entry read is the k-th reservation, intact, and once the outer call
\* has returned a read returns EMPTY only when every entry has been delivered.
C6_ReentrantWrite ==
    /\ [](/\ \A j \in Unconsumed : \A k \in Unconsumed :
                Nested(j, k) =>
                    /\ Region(reserved[j].at, reserved[j].advance)
                          \cap Region(reserved[k].at, reserved[k].advance) = {}
                    /\ reserved[j].published => reserved[k].published
          /\ \A k \in 1 .. Len(delivered) :
                /\ k <= Len(reserved)
                /\ Hands(delivered[k], reserved[k]))
    /\ [][(/\ rd.pc = "load_write_pos"
           /\ rd'.pc = "done"
           /\ rd'.ret = UNILOG_ERR_EMPTY
           /\ wr["p1"].pc = "idle")
          => \A k \in 1 .. Len(reserved) : reserved[k].consumed]_vars

\* The ring holds the bytes of reservation k as its write call stored them.
InRing(k) ==
    LET e == reserved[k]
        l == [msg_len |-> e.length, level |-> e.level,
              timestamp |-> e.timestamp, message |-> e.message]
    IN  \A o \in 0 .. e.advance - 1 :
            buffer[AddMask(e.at, o, mask)] = EntryByte(l, o)

\* The read in progress has begun to take the entry at read_pos out of the ring.
Taking == rd.pc \in {"clear_length", "copy_header", "copy_message",
                     "store_read_pos"}

\* C7: with a handler's writes running inside the reads of the consumer thread,
\* the k-th entry read is the k-th one written, with its level, timestamp and
\* payload; an entry not yet read stays in the ring as it was written; and a read
\* returns EMPTY only when every entry written has been read and
\* write_pos = read_pos.
C7_WriteInsideRead ==
    /\ [](/\ \A k \in 1 .. Len(delivered) :
                /\ k <= Len(reserved)
                /\ Hands(delivered[k], reserved[k])
          /\ \A k \in Unconsumed :
                (Taking /\ reserved[k].at = rd.read_pos) \/ InRing(k))
    /\ [][(/\ rd.pc = "load_write_pos"
           /\ rd'.pc = "done"
           /\ rd'.ret = UNILOG_ERR_EMPTY)
          => (/\ Len(delivered) = Len(reserved)
              /\ write_pos = read_pos)]_vars

\* C11: with the threshold set only between calls, a write call with a non-null
\* message and a level below the threshold has returned OK at once, whatever its
\* length, without reserving and without changing write_pos, read_pos or a ring
\* byte; a call with level >= threshold that returned OK has reserved an entry
\* that carries its timestamp and level.
C11_LevelGate ==
    /\ [](\A p \in Producers :
            (wr[p].pc # "idle" /\ ~wr[p].null) =>
                /\ wr[p].level < min_level =>
                        (/\ wr[p].pc = "done"
                         /\ wr[p].ret = UNILOG_OK
                         /\ wr[p].entry = 0)
                /\ (/\ wr[p].level >= min_level
                    /\ wr[p].pc = "done"
                    /\ wr[p].ret = UNILOG_OK) =>
                        (/\ wr[p].entry # 0
                         /\ reserved[wr[p].entry].timestamp = wr[p].timestamp
                         /\ reserved[wr[p].entry].level = wr[p].level))
    /\ [][\A p \in Producers :
            (wr[p].pc = "idle" /\ wr'[p].pc # "idle" /\ ~wr'[p].null
                /\ wr'[p].level < min_level)
                => UNCHANGED <<write_pos, read_pos, buffer, reserved>>]_vars

\* With threshold WARN, four writes DEBUG, INFO, WARN, ERROR were made and the
\* reads delivered exactly the third and the fourth: WARN, then ERROR.
C11_Witness ==
    /\ min_level = UNILOG_LEVEL_WARN
    /\ Len(reserved) = 2
    /\ Len(delivered) = 2
    /\ delivered[1].level = UNILOG_LEVEL_WARN
    /\ delivered[1].timestamp = ClockAt(3)
    /\ delivered[2].level = UNILOG_LEVEL_ERROR
    /\ delivered[2].timestamp = ClockAt(4)

\* C12: the read step that loads write_pos returns EMPTY exactly when write_pos
\* equals the read_pos it loaded, and then changes neither a position nor a ring
\* byte nor the deliveries; a read that has returned EMPTY loaded equal positions
\* and left level, timestamp and the message buffer as they were.
C12_EmptyRead ==
    /\ []((rd.pc = "done" /\ rd.ret = UNILOG_ERR_EMPTY)
            => (/\ rd.read_pos = rd.write_pos
                /\ rd.read_pos = read_pos
                /\ OutputsUntouched(rd)))
    /\ [][(rd.pc = "load_write_pos" /\ rd'.pc # "load_write_pos")
            => /\ (rd'.pc = "done" /\ rd'.ret = UNILOG_ERR_EMPTY)
                        <=> (read_pos = write_pos)
               /\ rd'.pc = "done"
                        => UNCHANGED <<write_pos, read_pos, buffer,
                                       delivered>>]_vars

\* A read has returned EMPTY after an entry was delivered, away from offset 0.
C12_Witness ==
    /\ rd.pc = "done"
    /\ rd.ret = UNILOG_ERR_EMPTY
    /\ read_pos # 0
    /\ Len(delivered) > 0

\* min(length - 12, out_cap - 1) in 32-bit unsigned arithmetic.
MinCopy(length, out_cap) ==
    IF length >= 12 /\ length - 12 <= out_cap - 1 THEN length - 12
    ELSE out_cap - 1

\* C13: in calls made one after the other, a read that consumed an entry of
\* length bytes returns copy_len = min(length - 12, out_cap - 1), has stored the
\* terminator at out[copy_len] and nothing behind it (nor behind the buffer), has
\* advanced read_pos by align4(length), and the bytes it copied are the first
\* copy_len payload bytes of the entry's write call; the k-th read that consumed
\* an entry consumed the k-th entry, not the tail of an earlier one.
C13_TruncatingRead ==
    /\ (rd.pc = "done" /\ rd.ret >= 0) =>
            LET copy == MinCopy(rd.total_size, rd.buffer_size) IN
            /\ rd.ret = copy
            /\ rd.out[copy + 1] = 0
            /\ \A k \in copy + 2 .. rd.buffer_size + 1 : rd.out[k] = -1
            /\ read_pos = (rd.read_pos + Align4(rd.total_size)) % capacity
            /\ (rd.entry # 0 /\ reserved[rd.entry].length >= 0) =>
                    /\ rd.total_size = 12 + reserved[rd.entry].length
                    /\ SubSeq(rd.out, 1, copy)
                            = SubSeq(reserved[rd.entry].message, 1, copy)
    /\ \A k \in 1 .. Len(delivered) :
            /\ delivered[k].entry = k
            /\ delivered[k].at = reserved[k].at

\* A payload of 4 bytes was read into a buffer of 1 byte, and the next read, into
\* a buffer of 3 bytes, has returned the first 2 bytes of the next entry.
C13_Witness ==
    /\ rd.pc = "done"
    /\ rd.ret = 2
    /\ rd.buffer_size = 3
    /\ Len(delivered) = 2
    /\ reserved[1].length = 4
    /\ delivered[1].buffer_size = 1
    /\ delivered[1].ret = 0
    /\ reserved[2].length = 4
    /\ delivered[2].bytes = <<67, 68>>

\* n is a power of two, in plain arithmetic.
IsPowerOfTwo(n) == \E k \in 0 .. 30 : n = 2 ^ k

\* C14: unilog_init returns INVALID exactly when the handle is null, the backing
\* pointer is null or the capacity is not a power of two, and then changes
\* nothing; otherwise it returns OK and leaves write_pos = 0, read_pos = 0, the
\* threshold TRACE, the capacity recorded and every ring byte zero: is_empty is
\* true, available is 0 and a read returns EMPTY.
C14_Init ==
    /\ [](setup.pc = "done" =>
            /\ setup.ret \in {UNILOG_OK, UNILOG_ERR_INVALID}
            /\ setup.ret = UNILOG_ERR_INVALID
                    <=> (\/ ~setup.log
                         \/ ~setup.buffer
                         \/ ~IsPowerOfTwo(setup.capacity))
            /\ setup.ret = UNILOG_OK =>
                    /\ write_pos = 0
                    /\ read_pos = 0
                    /\ min_level = UNILOG_LEVEL_TRACE
                    /\ unilog_get_level = UNILOG_LEVEL_TRACE
                    /\ capacity = setup.capacity
                    /\ \A a \in 0 .. capacity - 1 : buffer[a] = 0
                    /\ unilog_is_empty
                    /\ unilog_available = 0
                    /\ rd.pc = "done" => rd.ret = UNILOG_ERR_EMPTY)
    /\ [][(setup.pc = "idle" /\ setup'.pc = "done"
                /\ setup'.ret = UNILOG_ERR_INVALID)
            => UNCHANGED <<capacity, write_pos, read_pos, buffer,
                           min_level>>]_vars

\* unilog_init has returned OK for 16 backing bytes and the first read has
\* returned EMPTY.
C14_Witness ==
    /\ setup.pc = "done"
    /\ setup.ret = UNILOG_OK
    /\ capacity = 16
    /\ rd.pc = "done"
    /\ rd.ret = UNILOG_ERR_EMPTY

RECURSIVE Occupied(_)
\* The sum of align4(length) over the reservations of q not yet consumed.
Occupied(q) ==
    IF q = <<>> THEN 0
    ELSE (IF Head(q).consumed THEN 0 ELSE Head(q).advance) + Occupied(Tail(q))

\* C15: (write_pos - read_pos) & mask, the value of unilog_available, is the sum
\* of align4(length) over the entries reserved and not yet consumed and is at
\* most C - 1, and write_pos = read_pos exactly when no reserved entry is
\* unconsumed.
C15_Occupancy ==
    /\ unilog_available = Occupied(reserved)
    /\ unilog_available <= capacity - 1
    /\ unilog_is_empty <=> Unconsumed = {}

\* Offset a of the ring lies in the region of a reservation not yet consumed.
ReservedNow(a) ==
    \E k \in Unconsumed : a \in Region(reserved[k].at, reserved[k].advance)

\* C16: when a read that consumed an entry has returned, each of the
\* align4(length) bytes of that entry is zero unless it lies in a region reserved
\* and not consumed; and when no write and no read is in progress every ring
\* byte outside [read_pos, write_pos) is zero (as after unilog_init).
C16_Zeroing ==
    /\ (rd.pc = "done" /\ rd.ret >= 0) =>
            \A o \in 0 .. Align4(rd.total_size) - 1 :
                LET a == (rd.read_pos + o) % capacity IN
                buffer[a] = 0 \/ ReservedNow(a)
    /\ Quiet =>
            \A a \in 0 .. capacity - 1 :
                (a - read_pos) % capacity >= (write_pos - read_pos) % capacity
                    => buffer[a] = 0

\* C17: a read that loads a length word that is nonzero and greater than C/2 or
\* less than 12 returns INVALID at that step, with read_pos, write_pos, the ring
\* bytes and the outputs as they were, delivering nothing.
C17_CorruptedLength ==
    [][(/\ rd.pc = "load_length"
        /\ rd'.pc # "load_length"
        /\ LoadWord(buffer, rd.read_pos) # 0
        /\ \/ LoadWord(buffer, rd.read_pos) > capacity \div 2
           \/ LoadWord(buffer, rd.read_pos) < 12)
       => (/\ rd'.pc = "done"
           /\ rd'.ret = UNILOG_ERR_INVALID
           /\ OutputsUntouched(rd')
           /\ UNCHANGED <<write_pos, read_pos, buffer, delivered>>)]_vars

\* C17, for a length word greater than C/2 only.
C17_LengthAboveHalf ==
    [][(/\ rd.pc = "load_length"
        /\ rd'.pc # "load_length"
        /\ LoadWord(buffer, rd.read_pos) > capacity \div 2)
       => (/\ rd'.pc = "done"
           /\ rd'.ret = UNILOG_ERR_INVALID
           /\ OutputsUntouched(rd')
           /\ UNCHANGED <<write_pos, read_pos, buffer, delivered>>)]_vars

\* A read has returned INVALID for a length word greater than C/2.
C17_Witness ==
    /\ rd.pc = "done"
    /\ rd.ret = UNILOG_ERR_INVALID
    /\ rd.buffer_size > 0
    /\ LoadWord(buffer, rd.read_pos) > capacity \div 2

\* C18: in calls made one after the other the logger is a bounded FIFO queue of
\* entries: the k-th read that returns an entry returns the k-th entry written,
\* unchanged; a read returns EMPTY only when every entry written has been read,
\* and never BUSY or INVALID; a write returns FULL exactly when align4(total)
\* exceeds C - used - 1, used being the sum of align4(total) over the entries
\* written and not yet read.
C18_SequentialFifo ==
    /\ \A k \in 1 .. Len(delivered) :
            /\ delivered[k].entry = k
            /\ Hands(delivered[k], reserved[k])
    /\ (rd.pc = "done" /\ rd.buffer_size > 0) =>
            /\ rd.ret \notin {UNILOG_ERR_BUSY, UNILOG_ERR_INVALID}
            /\ rd.ret = UNILOG_ERR_EMPTY => Unconsumed = {}
    /\ \A p \in Producers :
            (wr[p].pc = "done" /\ ~wr[p].null /\ ~Oversize(p)) =>
                /\ wr[p].ret \in {UNILOG_OK, UNILOG_ERR_FULL}
                /\ wr[p].ret = UNILOG_ERR_FULL
                        <=> (/\ wr[p].entry = 0
                             /\ Align4(12 + wr[p].msg_len)
                                    > capacity - Occupied(reserved) - 1)

\* The write call of p has reserved and not yet stored its length word.
Unpublished(p) ==
    wr[p].pc \in {"copy_header", "copy_message", "pad", "publish"}

\* C19: with no read making room, a write call of a producer that keeps being
\* scheduled returns (OK, or FULL when no free space remains), whatever the other
\* producer does, also when it stops for good between its CAS and its length
\* store.
C19_ProducersNeverWait == (wr["p2"].pc # "idle") ~> (wr["p2"].pc = "done")

\* While p1 stands between its CAS and its length store, p2 has reserved behind
\* it, published and returned OK.
C19_Witness ==
    /\ Unpublished("p1")
    /\ wr["p2"].pc = "done"
    /\ wr["p2"].ret = UNILOG_OK
    /\ wr["p2"].entry > wr["p1"].entry
    /\ reserved[wr["p2"].entry].published

\* The labels of the levels 0 .. 6, in order.
LevelLabels == <<"TRACE", "DEBUG", "INFO", "WARN", "ERROR", "FATAL", "NONE">>

\* C20: unilog_level_name returns the labels "TRACE", "DEBUG", "INFO", "WARN",
\* "ERROR", "FATAL", "NONE" for the levels 0 .. 6 and "UNKNOWN" for every other
\* value.
C20_LevelName ==
    label.pc = "done" =>
        label.name = IF label.level \in 0 .. 6
                     THEN LevelLabels[label.level + 1]
                     ELSE "UNKNOWN"

\* unilog_level_name has returned "UNKNOWN" for the value 7.
C20_Witness ==
    /\ label.pc = "done"
    /\ label.level = 7
    /\ label.name = "UNKNOWN"

\* The ring offsets the next step of the read in progress stores to.
ReadStores ==
    CASE rd.pc = "clear_length" -> Region(rd.read_pos, LengthSize)
      [] rd.pc \in {"copy_header", "copy_message", "clear_padding"} -> {rd.pos}
      [] OTHER -> {}

\* The entry the read in progress takes (0: none): once read_pos is stored, the
\* one it consumed.
ReadEntry ==
    IF rd.pc = "clear_padding" THEN rd.entry ELSE Consumed(rd.read_pos)

\* The unconsumed reservations other than the entry the read is taking that
\* cover ring offset o.
ReservedBehind(o) ==
    {k \in Unconsumed \ {ReadEntry} :
        o \in Region(reserved[k].at, reserved[k].advance)}

\* C21: every byte store a read performs on the ring targets an offset that lies
\* in no region a producer reserved after the entry being consumed; in
\* particular the stores after the store of the new read_pos never hit a byte
\* that has been reserved, written or published.
C21_ReadStoresOwnEntry ==
    [][rd' # rd => \A o \in ReadStores : ReservedBehind(o) = {}]_vars

\* C22: for every entry that is reserved and not yet published, the four bytes
\* at its start offset are zero from the successful CAS until the final length
\* store, in every reachable state; so a read whose read_pos is that offset
\* returns BUSY.
C22_LengthZeroUntilPublished ==
    /\ [](\A p \in Producers :
            Unpublished(p) => LoadWord(buffer, wr[p].write_pos) = 0)
    /\ [][(/\ rd.pc = "load_length"
           /\ rd'.pc # "load_length"
           /\ \E p \in Producers :
                Unpublished(p) /\ wr[p].write_pos = rd.read_pos)
          => (rd'.pc = "done" /\ rd'.ret = UNILOG_ERR_BUSY)]_vars

\* Producer p takes a step.
Steps(p) == wr'[p] # wr[p]

\* The published entries no read has consumed or begun to take.
Waiting ==
    {k \in Unconsumed :
        /\ reserved[k].published
        /\ ~(Taking /\ reserved[k].at = rd.read_pos)}

\* C23: the length store is the last ring write of a write call: the step that
\* stores the length word ends the call, and a producer outside the steps
\* between its CAS and that store writes no ring byte. Whenever the consumer
\* loads a nonzero length word at read_pos, the entry reserved there is
\* published and its level, timestamp, payload and zero padding are in the ring
\* as its producer wrote them; and no step of a producer changes a byte of a
\* published entry that has not been consumed.
C23_PublishedLast ==
    /\ [][\A p \in Producers : Steps(p) =>
            /\ wr[p].pc = "publish" =>
                    /\ wr'[p].pc = "done"
                    /\ LoadWord(buffer', wr[p].write_pos)
                            = total_size(wr[p].msg_len)
            /\ ~Unpublished(p) => buffer' = buffer
            /\ \A k \in Waiting :
                    \A o \in Region(reserved[k].at, reserved[k].advance) :
                        buffer'[o] = buffer[o]]_vars
    /\ [][(/\ rd.pc = "load_length"
           /\ rd'.pc # "load_length"
           /\ LoadWord(buffer, rd.read_pos) # 0)
          => (/\ Consumed(rd.read_pos) # 0
              /\ reserved[Consumed(rd.read_pos)].published
              /\ InRing(Consumed(rd.read_pos)))]_vars

\* C24: the oversize check uses the true value 12 + payload_len: a write call
\* with a non-null message and level >= threshold whose payload_len makes that
\* value exceed C/2, the lengths of 2^32 - 12 and more included, has returned
\* INVALID without reserving; and every byte a write stores lies in the region
\* it reserved, so that it never stores more bytes than its advance.
C24_TrueTotalChecked ==
    /\ [](\A p \in Producers :
            (/\ wr[p].pc # "idle"
             /\ ~wr[p].null
             /\ wr[p].level >= min_level
             /\ Oversize(p))
                => (/\ wr[p].pc = "done"
                    /\ wr[p].ret = UNILOG_ERR_INVALID
                    /\ wr[p].entry = 0))
    /\ [][\A p \in Producers : (Steps(p) /\ Unpublished(p)) =>
            \A o \in DOMAIN buffer :
                buffer'[o] # buffer[o] =>
                    o \in Region(wr[p].write_pos,
                                 align_up(total_size(wr[p].msg_len)))]_vars

\* C25: every nonzero length word the consumer loads at read_pos satisfies
\* 12 <= length <= C/2 and equals 12 + payload_len of the write call that
\* reserved that offset, so a read of a ring that received writes through the
\* write calls only never returns INVALID.
C25_LengthWordValid ==
    [][(/\ rd.pc = "load_length"
        /\ rd'.pc # "load_length"
        /\ LoadWord(buffer, rd.read_pos) # 0)
       => (/\ HeaderSize <= LoadWord(buffer, rd.read_pos)
           /\ LoadWord(buffer, rd.read_pos) <= capacity \div 2
           /\ Consumed(rd.read_pos) # 0
           /\ LoadWord(buffer, rd.read_pos)
                = HeaderSize + reserved[Consumed(rd.read_pos)].length
           /\ rd'.ret # UNILOG_ERR_INVALID)]_vars

\* A ring offset at which a whole length word lies inside the array.
WordOffset(pos) ==
    /\ pos \in 0 .. capacity - 1
    /\ pos % LengthSize = 0
    /\ pos + LengthSize <= capacity

\* C26: write_pos and read_pos are always multiples of 4 within [0, C), every
\* entry starts at an offset that is a multiple of 4, and the offsets at which a
\* write or a read accesses a length word leave the four bytes of the word
\* inside the array.
C26_Aligned ==
    /\ write_pos \in 0 .. capacity - 1
    /\ read_pos \in 0 .. capacity - 1
    /\ write_pos % 4 = 0
    /\ read_pos % 4 = 0
    /\ \A k \in 1 .. Len(reserved) : WordOffset(reserved[k].at)
    /\ \A p \in Producers : Unpublished(p) => WordOffset(wr[p].write_pos)
    /\ rd.pc \in {"load_length", "clear_length"} => WordOffset(rd.read_pos)

\* An entry of 13 bytes was reserved away from offset 0, the next entry starts 16
\* bytes on, a read has advanced read_pos and write_pos has wrapped behind it.
C26_Witness ==
    /\ 0 < write_pos
    /\ write_pos < read_pos
    /\ \E j \in 1 .. Len(reserved) :
            /\ reserved[j].length = 1
            /\ reserved[j].at # 0
            /\ \E k \in j + 1 .. Len(reserved) :
                    reserved[k].at = AddMask(reserved[j].at, 16, mask)

\* The value the most recent unilog_set_level call stored (TRACE after init).
MostRecentLevel ==
    IF levels.set = <<>> THEN UNILOG_LEVEL_TRACE ELSE levels.set[1]

\* A write call of p that has passed its level check and has not returned.
PastLevelCheck(p) == wr[p].pc \notin {"idle", "done"}

\* C27: the threshold is read once per write call, when the call begins: the
\* call is dropped (OK, nothing reserved) exactly when its level is below the
\* threshold of that moment; a call that passed the check returns only FULL or,
\* with its entry reserved and published under its own level, OK, whatever
\* unilog_set_level stores while it retries its CAS or copies. A
\* unilog_set_level call changes neither write_pos nor read_pos nor a ring
\* byte nor a call in progress, and unilog_get_level returns the value of the
\* most recent unilog_set_level call (TRACE after init).
C27_ThresholdReadOnce ==
    [][/\ \A p \in Producers :
            /\ (wr[p].pc = "idle" /\ Steps(p) /\ ~wr'[p].null) =>
                    ((wr'[p].pc = "done" /\ wr'[p].ret = UNILOG_OK)
                        <=> wr'[p].level < min_level)
            /\ (PastLevelCheck(p) /\ wr'[p].pc = "done") =>
                    \/ wr'[p].ret = UNILOG_ERR_FULL /\ wr'[p].entry = 0
                    \/ /\ wr'[p].ret = UNILOG_OK
                       /\ wr'[p].entry # 0
                       /\ reserved'[wr'[p].entry].published
                       /\ reserved'[wr'[p].entry].level = wr[p].level
       /\ levels'.set # levels.set =>
            /\ min_level' = levels'.set[1]
            /\ UNCHANGED <<write_pos, read_pos, buffer, wr, rd, reserved>>
       /\ (levels.got = <<>> /\ levels'.got # <<>>) =>
            levels'.got = <<MostRecentLevel>>]_vars

\* The third entry of the ring belongs to a write of level INFO that is about
\* to store its length word, and the threshold, raised to WARN since that call
\* passed its level check, has been queried and returned as WARN.
C27_Witness ==
    /\ wr["p1"].pc = "publish"
    /\ wr["p1"].level = UNILOG_LEVEL_INFO
    /\ wr["p1"].entry = 3
    /\ levels.set = <<UNILOG_LEVEL_WARN>>
    /\ levels.got = <<UNILOG_LEVEL_WARN>>
    /\ min_level = UNILOG_LEVEL_WARN

\* C28: a read call that keeps taking its own steps returns, whatever the
\* producers do, and every iteration of its clearing loop brings pos one byte
\* nearer to the new read_pos; a write call is back at the top of its
\* reservation loop only after its own CAS failed, and write_pos changes only in
\* the successful CAS of a producer, so that a CAS fails for a changed write_pos
\* only after another producer's CAS succeeded; a write call that keeps taking
\* its steps returns, its padding loop coming one byte nearer to the new
\* write_pos with every iteration and ending exactly there.
C28_CallsFinish ==
    /\ (rd.pc # "idle") ~> (rd.pc = "done")
    /\ (wr["p2"].pc # "idle") ~> (wr["p2"].pc = "done")
    /\ [][/\ (rd.pc = "clear_padding" /\ rd' # rd) =>
                /\ SubMask(rd.new_read_pos, rd'.pos, mask)
                        < SubMask(rd.new_read_pos, rd.pos, mask)
                /\ rd'.pc = "done" <=> rd'.pos = rd.new_read_pos
          /\ \A p \in Producers :
                /\ (wr[p].pc # "idle" /\ Steps(p)
                        /\ wr'[p].pc = "load_write_pos") => wr[p].pc = "cas"
                /\ (wr[p].pc = "pad" /\ Steps(p)) =>
                        /\ SubMask(wr[p].new_write_pos, wr'[p].pos, mask)
                            < SubMask(wr[p].new_write_pos, wr[p].pos, mask)
                        /\ wr'[p].pc = "publish"
                            <=> wr'[p].pos = wr[p].new_write_pos
                /\ (Steps(p) /\ wr'[p].pc = "publish") =>
                        wr'[p].pos = wr[p].new_write_pos
          /\ write_pos' # write_pos =>
                \E p \in Producers :
                    /\ wr[p].pc = "cas"
                    /\ wr'[p].pc = "copy_header"
                    /\ write_pos = wr[p].write_pos
                    /\ write_pos' = wr[p].new_write_pos]_vars

\* The read is in its clearing loop while p2, whose CAS failed because p1's
\* succeeded in between, is back at the top of its reservation loop and p1 is
\* in its padding loop.
C28_Witness ==
    /\ rd.pc = "clear_padding"
    /\ wr["p1"].pc = "pad"
    /\ wr["p2"].pc = "load_write_pos"
    /\ wr["p2"].read_pos # 0
    /\ wr["p2"].write_pos # write_pos
    /\ reserved[Len(reserved)].by = "p1"

\* C29: every ring that unilog_init accepted has a capacity that is a power of
\* two and at least 16: for the capacities 1, 2, 4 and 8 the call has returned
\* INVALID.
C29_CapacityAtLeast16 ==
    (setup.pc = "done" /\ setup.log /\ setup.buffer) =>
        /\ setup.ret = UNILOG_OK =>
                (IsPowerOfTwo(capacity) /\ capacity >= 16)
        /\ setup.capacity \in {1, 2, 4, 8} => setup.ret = UNILOG_ERR_INVALID

\* The write call of p has a non-null message, a level not below the threshold
\* and a total of at most C/2.
Admissible(p) ==
    /\ ~wr[p].null
    /\ wr[p].level >= min_level
    /\ ~Oversize(p)

\* The unconsumed entries of the largest size, advance C/2, other than entry k.
HalfRingEntries(k) ==
    {j \in Unconsumed \ {k} : reserved[j].advance = capacity \div 2}

\* C30: in calls made one after the other, an admissible write call has
\* returned OK with its entry reserved, or it has returned FULL and the ring is
\* not empty (write_pos # read_pos): a write into an empty ring never returns
\* FULL. Two entries of the largest size, advance C/2, are never in the ring
\* together: with one of them unconsumed, a write of that size has returned
\* FULL.
C30_EmptyRingTakesEntry ==
    /\ (wr["p1"].pc = "done" /\ Admissible("p1")) =>
            \/ wr["p1"].ret = UNILOG_OK /\ wr["p1"].entry # 0
            \/ /\ wr["p1"].ret = UNILOG_ERR_FULL
               /\ wr["p1"].entry = 0
               /\ write_pos # read_pos
    /\ \A k \in Unconsumed :
            reserved[k].advance = capacity \div 2 => HalfRingEntries(k) = {}
    /\ (/\ wr["p1"].pc = "done"
        /\ Admissible("p1")
        /\ align_up(total_size(wr["p1"].msg_len)) = capacity \div 2
        /\ HalfRingEntries(wr["p1"].entry) # {})
            => wr["p1"].ret = UNILOG_ERR_FULL

\* An entry of advance C/2 was written into an empty ring away from offset 0, and
\* the next write of that size has returned FULL.
C30_Witness ==
    /\ wr["p1"].pc = "done"
    /\ wr["p1"].ret = UNILOG_ERR_FULL
    /\ Admissible("p1")
    /\ align_up(total_size(wr["p1"].msg_len)) = capacity \div 2
    /\ \E k \in HalfRingEntries(0) :
            /\ reserved[k].empty
            /\ reserved[k].at # 0
            /\ reserved[k].published

\* The read call returns in this step.
ReadReturns == rd.pc # "done" /\ rd'.pc = "done"

\* The read call that returns in this step has consumed an entry.
ReadConsumed == delivered' # delivered

\* C31: in calls made one after the other, a read call returns a negative value
\* exactly when it consumed nothing, and that value is INVALID, EMPTY or BUSY
\* with read_pos left as it was; otherwise it returns copy_len >= 0 with
\* read_pos advanced; it returns 0 exactly when it consumed an entry whose
\* payload_len is 0 or whose buffer has one byte. A unilog_write_raw of length 0
\* is not refused as INVALID, and the read that consumes its entry returns 0.
C31_ReadReturnValue ==
    /\ [][ReadReturns =>
            /\ rd'.ret < 0 <=> ~ReadConsumed
            /\ rd'.ret < 0 =>
                    /\ rd'.ret \in {UNILOG_ERR_INVALID, UNILOG_ERR_EMPTY,
                                    UNILOG_ERR_BUSY}
                    /\ read_pos' = read_pos
                    /\ rd.pc \in {"idle", "load_write_pos", "load_length"}
            /\ rd'.ret >= 0 =>
                    /\ rd'.ret = rd'.copy_len
                    /\ read_pos' = rd'.new_read_pos
                    /\ read_pos' # rd'.read_pos
            /\ rd'.ret = 0 <=>
                    /\ ReadConsumed
                    /\ rd'.entry # 0
                    /\ \/ reserved[rd'.entry].length = 0
                       \/ rd'.buffer_size = 1]_vars
    /\ [](\A p \in Producers :
            (wr[p].pc = "done" /\ ~wr[p].null /\ wr[p].msg_len = 0)
                => wr[p].ret # UNILOG_ERR_INVALID)

====
